---- MODULE Spec2Model ----
(***************************************************************************)
(* Model of the Google Analytics (universal) server-side integration:      *)
(*   - the mapper (lib/universal/mapper.js, src/unnamed/part_001): pure    *)
(*     functions from (event facade, settings) to flat payloads;           *)
(*   - the dispatcher (src/lib/universal.js): one form POST per payload,   *)
(*     completedOrder fanning its payloads out through a Batch.            *)
(* JavaScript values are tagged tuples, objects are functions from the     *)
(* keys they own to values, a payload is such a function.                  *)
(***************************************************************************)
EXTENDS Integers, Sequences, FiniteSets, TLC

VARIABLES
  event,      \* the message last handed to the mapper
  settings,   \* the integration settings (this.settings)
  op,         \* name of the mapper operation being called ("none": the caller is idle)
  result,     \* what that call produced: [threw, payloads]
  before,     \* the caller's previous call: [op, result] (op "none": there was none)
  invoked,    \* per dispatcher call: NoCall, or [method, message, threw]
  sends,      \* per dispatcher call: state of each POST, "idle" | "inflight" | "ok" | "err"
  pending,    \* per dispatcher call: Batch#end's `pending` counter
  batchDone,  \* per dispatcher call: Batch#end's `done` flag
  deferred,   \* per dispatcher call: fn invocations scheduled by Batch's defer()
  calls,      \* per dispatcher call: invocations of the caller's fn, in order
  firstErr,   \* per dispatcher call: index of the send that failed first (0: none yet)
  posted      \* per dispatcher call: bodies handed to .post().send(), in order

vars == <<event, settings, op, result, before, invoked, sends, pending, batchDone, deferred,
          calls, firstErr, posted>>

mapperVars == <<event, op, result, before>>
dispatchVars == <<invoked, sends, pending, batchDone, deferred, calls, firstErr, posted>>

-----------------------------------------------------------------------------
(* JavaScript values *)

Undef == <<"undefined">>
Str(s) == <<"string", s>>
Num(n) == <<"number", n>>
Bool(b) == <<"boolean", b>>
Obj(f) == <<"object", f>>
Arr(a) == <<"array", a>>
U32(hi, lo) == <<"uint32", hi, lo>>

\* a number that is no integer, n / 10 with n no multiple of ten
Tenths(n) == <<"tenths", n>>

NaN == <<"NaN">>

Tag(v) == v[1]
Val(v) == v[2]

EmptyObj == [k \in {} |-> Undef]

\* is.string(v)
IsString(v) == Tag(v) = "string"

\* !!v : undefined, '', 0 and false are falsy
Truthy(v) ==
  CASE Tag(v) = "undefined" -> FALSE
    [] Tag(v) = "string"    -> Len(Val(v)) # 0
    [] Tag(v) = "number"    -> Val(v) # 0
    [] Tag(v) = "boolean"   -> Val(v)
    [] Tag(v) = "NaN"       -> FALSE
    [] OTHER                -> TRUE

\* a || b
Or(a, b) == IF Truthy(a) THEN a ELSE b

\* obj[key] on an object given as a function
Get(f, key) == IF key \in DOMAIN f THEN f[key] ELSE Undef

\* v.key, where v may be an object or anything else (a missing path is undefined)
Field(v, key) == IF Tag(v) = "object" THEN Get(Val(v), key) ELSE Undef

\* lodash.assign(objs[1], objs[2], ...): for each key the last object owning it wins
extend(objs) ==
  [k \in UNION {DOMAIN objs[i] : i \in 1..Len(objs)} |->
     objs[CHOOSE i \in 1..Len(objs) :
            /\ k \in DOMAIN objs[i]
            /\ \A j \in (i + 1)..Len(objs) : k \notin DOMAIN objs[j]][k]]

\* pick handing back the whole object
pickAll(f, keys) == f

\* lodash.pick(obj, keys)
pick(f, keys) == [k \in (DOMAIN f) \cap keys |-> f[k]]

\* typeof v === 'number'
IsNumber(v) == Tag(v) \in {"number", "tenths"}

\* Math.floor(v)
roundDown(v) ==
  CASE Tag(v) = "number" -> v
    [] Tag(v) = "tenths" -> Num(Val(v) \div 10)
    [] OTHER             -> NaN

\* Math.round(v): the nearest integer, a half going up; a value that is no
\* number (a string without numerals) gives NaN
round(v) ==
  CASE Tag(v) = "number" -> v
    [] Tag(v) = "tenths" -> Num((Val(v) + 5) \div 10)
    [] OTHER             -> NaN

-----------------------------------------------------------------------------
(* Strings that the code inspects character by character are sequences of   *)
(* one-character strings.                                                   *)

Lowers == <<"a","b","c","d","e","f","g","h","i","j","k","l","m",
            "n","o","p","q","r","s","t","u","v","w","x","y","z">>
Uppers == <<"A","B","C","D","E","F","G","H","I","J","K","L","M",
            "N","O","P","Q","R","S","T","U","V","W","X","Y","Z">>
Digits == <<"0","1","2","3","4","5","6","7","8","9">>

\* String.prototype.charCodeAt for the characters used
charCode(c) ==
  IF \E i \in 1..26 : Lowers[i] = c THEN 96 + (CHOOSE i \in 1..26 : Lowers[i] = c)
  ELSE IF \E i \in 1..26 : Uppers[i] = c THEN 64 + (CHOOSE i \in 1..26 : Uppers[i] = c)
  ELSE IF \E i \in 1..10 : Digits[i] = c THEN 47 + (CHOOSE i \in 1..10 : Digits[i] = c)
  ELSE IF c = "." THEN 46
  ELSE IF c = "-" THEN 45
  ELSE 95

\* String.prototype.toLowerCase
toLowerCase(s) ==
  [i \in 1..Len(s) |->
     IF \E j \in 1..26 : Uppers[j] = s[i]
     THEN Lowers[CHOOSE j \in 1..26 : Uppers[j] = s[i]]
     ELSE s[i]]

\* s.indexOf(sub) !== -1
includes(s, sub) ==
  \E i \in 1..(Len(s) - Len(sub) + 1) : SubSeq(s, i, i + Len(sub) - 1) = sub

RECURSIVE BitXor(_, _)
BitXor(a, b) ==
  IF a = 0 THEN b
  ELSE IF b = 0 THEN a
  ELSE (((a % 2) + (b % 2)) % 2) + 2 * BitXor(a \div 2, b \div 2)

Limb == 65536

\* one round of string-hash: hash = (hash * 33) ^ code, on 32 bits kept as
\* two 16-bit limbs <<hi, lo>>
hashStep(h, code) ==
  LET m  == h[2] * 33
      lo == m % Limb
      hi == (h[1] * 33 + (m \div Limb)) % Limb
  IN  <<hi, BitXor(lo, code)>>

RECURSIVE hashFrom(_, _, _)
hashFrom(h, s, i) ==
  IF i = 0 THEN h ELSE hashFrom(hashStep(h, charCode(s[i])), s, i - 1)

\* string-hash: djb2-xor from the last character to the first, >>> 0.
\* A value without .length (a number) leaves the seed; undefined throws.
hash(v) ==
  LET h == IF IsString(v) THEN hashFrom(<<0, 5381>>, Val(v), Len(Val(v)))
           ELSE <<0, 5381>>
  IN  U32(h[1], h[2])

\* str.length on undefined is a TypeError
hashThrows(v) == Tag(v) = "undefined"

-----------------------------------------------------------------------------
(* The facade accessors the mapper calls (segmentio-facade).  An event is a *)
(* record; its properties and traits are objects.                           *)

\* facade.proxy('properties.<key>')
prop(e, key) == Get(e.properties, key)

\* facade.userId(), facade.anonymousId()
userId(e) == e.userId
anonymousId(e) == e.anonymousId

\* track.event()
eventName(e) == e.event

\* track.category(): properties.category
category(e) == prop(e, "category")

\* track.field('category'): the top-level field of the message
fieldCategory(e) == e.category

\* track.orderId(): properties.id || properties.orderId
orderId(e) == Or(prop(e, "id"), prop(e, "orderId"))

\* track.currency(): properties.currency || 'USD'
currency(e) == Or(prop(e, "currency"), Str("USD"))

\* event names matching /completed ?order/i among those used
CompletedOrderNames == {Str("Completed Order"), Str("completed order"), Str("CompletedOrder")}

\* the facade's currency(val): a number as it is, nothing for a falsy value or
\* for a value that parses to no number
toCurrency(val) == IF Truthy(val) /\ IsNumber(val) THEN val ELSE Undef

\* track.revenue(): properties.revenue; for a completed order, else properties.total
revenue(e) ==
  toCurrency(IF ~Truthy(prop(e, "revenue")) /\ e.event \in CompletedOrderNames
             THEN prop(e, "total")
             ELSE prop(e, "revenue"))

\* track.value()
value(e) == prop(e, "value")

\* track.products(): properties.products when it is an array, else []
products(e) ==
  IF Tag(prop(e, "products")) = "array" THEN Val(prop(e, "products")) ELSE <<>>

\* new Track({ properties: product })
productFacade(product) == [properties |-> product, event |-> Undef]

\* product.quantity(): properties.quantity || 1
quantity(e) == Or(prop(e, "quantity"), Num(1))

\* facade.options('Google Analytics')
options(e) == e.options

\* A URL string is kept as its pieces <<hostname, pathname, search>>;
\* url.parse gives hostname (null when empty), pathname and path.
parseHostname(u) == IF IsString(u) /\ Len(Val(u)) = 3 THEN Str(Val(u)[1]) ELSE Undef
parsePathname(u) == IF IsString(u) /\ Len(Val(u)) = 3 THEN Str(Val(u)[2]) ELSE Undef
parsePath(u) ==
  IF IsString(u) /\ Len(Val(u)) = 3 THEN Str(Val(u)[2] \o Val(u)[3]) ELSE Undef

-----------------------------------------------------------------------------
(* Private helpers of the mapper *)

\* form[k] = v, as the object { k: v } assigned over the form
Put(k, v) == k :> v

\* if (c) form[k] = v
PutIf(c, k, v) == IF c THEN k :> v ELSE EmptyObj

\* ret[k] = v inside a loop
With(ret, k, v) == [j \in (DOMAIN ret) \cup {k} |-> IF j = k THEN v ELSE ret[j]]

\* isMobile: the library's name, lower-cased, contains one of the three marks
MobileMarks == { <<"i","o","s">>,
                 <<"a","n","d","r","o","i","d">>,
                 <<"a","n","a","l","y","t","i","c","s",".","x","a","m","a","r","i","n">> }

libraryName(library) == IF IsString(library) THEN library ELSE Field(library, "name")

\* name().toLowerCase() on a name that is no string is a TypeError
isMobileThrows(library) == Truthy(library) /\ ~IsString(libraryName(library))

\* isMobile without toLowerCase: the marks are looked for in the name as written
isMobileCaseSensitive(library) ==
  /\ Truthy(library)
  /\ IsString(libraryName(library))
  /\ \E mark \in MobileMarks : includes(Val(libraryName(library)), mark)

isMobile(library) ==
  /\ Truthy(library)
  /\ IsString(libraryName(library))
  /\ \E mark \in MobileMarks : includes(toLowerCase(Val(libraryName(library))), mark)

\* shorten leaving the vendor name as configured
shortenVerbatim(name) == name[1] \o name[2] \o name[3]

\* A vendor field name is kept as its pieces <<letters, digits, rest>>.
\* shorten: /^metric(\d+)$/ -> cm<N>, /^dimension(\d+)$/ -> cd<N>, else undefined ("")
shorten(name) ==
  IF name[1] = "metric" /\ name[2] # "" /\ name[3] = "" THEN "cm" \o name[2]
  ELSE IF name[1] = "dimension" /\ name[2] # "" /\ name[3] = "" THEN "cd" \o name[2]
  ELSE ""

\* settings.metrics / settings.dimensions: an object is kept as the list of its
\* entries <<name, vendor name>> in key order; data.metrics || {}
entries(m) == IF Truthy(m) THEN Val(m) ELSE <<>>

mapKeys(m) == [i \in 1..Len(m) |-> m[i][1]]
mapHas(m, name) == \E i \in 1..Len(m) : m[i][1] = name
mapGet(m, name) == m[CHOOSE i \in 1..Len(m) : m[i][1] = name][2]

RECURSIVE metricsLoop(_, _, _, _, _)
metricsLoop(obj, ms, ds, names, ret) ==
  IF names = <<>> THEN ret
  ELSE LET name  == Head(names)
           key   == shorten(IF mapHas(ms, name) THEN mapGet(ms, name) ELSE mapGet(ds, name))
           val   == Get(obj, name)
       IN  metricsLoop(obj, ms, ds, Tail(names),
                       IF Tag(val) # "undefined" /\ key # "" THEN With(ret, key, val) ELSE ret)

\* metrics(obj, data)
metrics(obj, data) ==
  metricsLoop(obj, entries(data.metrics), entries(data.dimensions),
              mapKeys(entries(data.metrics)) \o mapKeys(entries(data.dimensions)), EmptyObj)

\* the tracking id chosen by createCommonGAForm
trackingId(e, s) ==
  IF isMobile(e.library) THEN Or(s.mobileTrackingId, s.serversideTrackingId)
  ELSE s.serversideTrackingId

\* clientId without the override of options.clientId
clientIdHashOnly(e) == hash(Or(userId(e), anonymousId(e)))

\* the client id chosen by createCommonGAForm
clientId(e) ==
  IF Truthy(options(e)) /\ IsString(Field(options(e), "clientId"))
  THEN Field(options(e), "clientId")
  ELSE hash(Or(userId(e), anonymousId(e)))

\* createCommonGAForm raises where isMobile or hash does
commonThrows(e, s) ==
  isMobileThrows(e.library) \/ hashThrows(Or(userId(e), anonymousId(e)))

\* the custom fields with the traits merged over the properties
customFieldsTraitsLast(e, s) == extend(<< metrics(e.properties, s), metrics(e.traits, s) >>)

\* extend(metrics(traits, settings), metrics(properties, settings))
customFields(e, s) == extend(<< metrics(e.traits, s), metrics(e.properties, s) >>)

\* uid whenever the message has a user id, whatever settings.sendUserId
userIdFieldUnconditional(e, s) == PutIf(Truthy(userId(e)), "uid", userId(e))

\* if (settings.sendUserId && facade.userId()) form.uid = facade.userId()
userIdField(e, s) == PutIf(Truthy(s.sendUserId) /\ Truthy(userId(e)), "uid", userId(e))

createCommonGAForm(e, s) ==
  LET campaign == e.campaign
      screen   == e.screen
      app      == e.app
  IN  extend(<<
        customFields(e, s),
        Put("cid", clientId(e)),
        Put("tid", trackingId(e, s)),
        Put("v", Num(1)),
        PutIf(Truthy(Field(campaign, "name")), "cn", Field(campaign, "name")),
        PutIf(Truthy(Field(campaign, "source")), "cs", Field(campaign, "source")),
        PutIf(Truthy(Field(campaign, "medium")), "cm", Field(campaign, "medium")),
        PutIf(Truthy(Field(campaign, "content")), "cc", Field(campaign, "content")),
        PutIf(Truthy(Field(screen, "height")) /\ Truthy(Field(screen, "width")), "sr",
              Str(ToString(Val(Field(screen, "width"))) \o "x"
                  \o ToString(Val(Field(screen, "height"))))),
        PutIf(Truthy(e.locale), "ul", e.locale),
        PutIf(Truthy(Field(app, "name")), "an", Field(app, "name")),
        PutIf(Truthy(Field(app, "version")), "av", Field(app, "version")),
        PutIf(Truthy(Field(app, "appId")), "aid", Field(app, "appId")),
        PutIf(Truthy(Field(app, "appInstallerId")), "aiid", Field(app, "appInstallerId")),
        userIdField(e, s),
        PutIf(Truthy(e.userAgent), "ua", e.userAgent),
        PutIf(Truthy(e.ip), "uip", e.ip) >>)

\* createPageDataForm reading context.page.url before properties.url
createPageDataFormContextFirst(e, form) ==
  LET url == Or(e.pageUrl, prop(e, "url"))
  IN  IF ~IsString(url) THEN form
      ELSE extend(<< form,
                     PutIf(Truthy(parseHostname(url)), "dh", parseHostname(url)),
                     PutIf(Truthy(parsePath(url)), "dp", parsePath(url)) >>)

\* createPageDataForm: hostname and path of properties.url || context.page.url
createPageDataForm(e, form) ==
  LET url == Or(prop(e, "url"), e.pageUrl)
  IN  IF ~IsString(url) THEN form
      ELSE extend(<< form,
                     PutIf(Truthy(parseHostname(url)), "dh", parseHostname(url)),
                     PutIf(Truthy(parsePath(url)), "dp", parsePath(url)) >>)

\* compactObject: the keys whose value is not undefined
compactObject(obj) == [k \in {j \in DOMAIN obj : Tag(obj[j]) # "undefined"} |-> obj[k]]

\* formatPage: hostname, pathname and title of context.page
formatPage(e) ==
  compactObject(extend(<<
    Put("dh", Or(parseHostname(e.pageUrl), Undef)),
    Put("dp", Or(parsePathname(e.pageUrl), Undef)),
    Put("dt", e.pageTitle) >>))

\* delete obj[k]
Remove(obj, k) == [j \in (DOMAIN obj) \ {k} |-> obj[j]]

\* facade.properties(aliases), one alias: the accessor of that name when the
\* facade has one (quantity, orderId, currency, revenue), else the property
aliasValue(e, alias) ==
  CASE alias = "quantity" -> quantity(e)
    [] alias = "orderId"  -> orderId(e)
    [] alias = "currency" -> currency(e)
    [] alias = "revenue"  -> revenue(e)
    [] OTHER              -> prop(e, alias)

RECURSIVE renameLoop(_, _, _)
renameLoop(e, renames, ret) ==
  IF renames = <<>> THEN ret
  ELSE LET alias == Head(renames)[1]
           val   == aliasValue(e, alias)
       IN  renameLoop(e, Tail(renames),
                      IF Tag(val) = "undefined" THEN ret
                      ELSE Remove(With(ret, Head(renames)[2], val), alias))

\* facade.properties(renames): a copy of the properties with the aliases renamed
properties(e, renames) == renameLoop(e, renames, e.properties)

\* lodash.values(renames)
values(renames) == {renames[i][2] : i \in 1..Len(renames)}

\* facade.properties(renames) adding the renamed keys to the facade's own object
ownPropertiesAliased(e, renames) ==
  extend(<< e.properties, pick(properties(e, renames), values(renames)) >>)

\* facade.properties(renames) renaming the facade's own object in place
ownPropertiesRenamed(e, renames) == properties(e, renames)

\* the facade's own properties after facade.properties(renames): field() hands
\* out a clone, so the renames and deletes are made on the copy
ownProperties(e, renames) == e.properties

\* the renames of formatProduct for slot index
ProductRenames(index) ==
  LET prefix == "pr" \o ToString(index)
  IN  << <<"brand", prefix \o "br">>, <<"category", prefix \o "ca">>,
         <<"id", prefix \o "id">>, <<"name", prefix \o "nm">>,
         <<"price", prefix \o "pr">>, <<"quantity", prefix \o "qty">>,
         <<"variant", prefix \o "va">> >>

\* formatProduct returning the renamed properties without picking the slot keys
formatProductUnpicked(product, index) ==
  properties(productFacade(product), ProductRenames(index))

\* formatProduct(product, index)
formatProduct(product, index) ==
  pick(properties(productFacade(product), ProductRenames(index)),
       values(ProductRenames(index)))

RECURSIVE formatProductsFrom(_, _, _)
formatProductsFrom(ps, i, acc) ==
  IF i > Len(ps) THEN acc
  ELSE formatProductsFrom(ps, i + 1, extend(<<acc, formatProduct(ps[i], i)>>))

\* formatProducts(products): reduce over the list, slot i + 1 for index i
formatProducts(ps) == formatProductsFrom(ps, 1, EmptyObj)

-----------------------------------------------------------------------------
(* The mapper's exported operations *)

\* page.fullName(): category + ' ' + name when both are given, else name
fullName(e) ==
  IF Truthy(e.name) /\ Truthy(fieldCategory(e))
  THEN Str(Val(fieldCategory(e)) \o " " \o Val(e.name))
  ELSE e.name

mapPage(e, s) ==
  extend(<<
    createPageDataForm(e, createCommonGAForm(e, s)),
    PutIf(Truthy(prop(e, "referrer")), "dr", prop(e, "referrer")),
    Put("dt", fullName(e)),
    Put("t", Str("pageview")) >>)

mapScreen(e, s) ==
  extend(<< createCommonGAForm(e, s), Put("cd", e.name), Put("t", Str("screenview")) >>)

mapTrack(e, s) ==
  extend(<<
    createPageDataForm(e, createCommonGAForm(e, s)),
    Put("ev", round(Or(value(e), Or(revenue(e), Num(0))))),
    Put("el", Or(prop(e, "label"), Str("event"))),
    Put("ec", Or(category(e), Str("All"))),
    Put("ea", eventName(e)),
    Put("t", Str("event")),
    Put("ni", Or(prop(e, "nonInteraction"), s.nonInteraction)) >>)

\* clickedProduct / addedProduct / removedProduct differ in pa only
mapProductAction(e, s, pa) ==
  extend(<<
    extend(<< Put("ea", eventName(e)),
              Put("ec", Or(fieldCategory(e), Str("EnhancedEcommerce"))),
              Put("pa", Str(pa)),
              Put("t", Str("event")) >>),
    createCommonGAForm(e, s),
    formatPage(e),
    formatProduct(e.properties, 1) >>)

mapClickedProduct(e, s) == mapProductAction(e, s, "click")
mapAddedProduct(e, s) == mapProductAction(e, s, "add")
mapRemovedProduct(e, s) == mapProductAction(e, s, "remove")

CompletedCheckoutRenames == << <<"option", "col">>, <<"step", "cos">> >>

mapCompletedCheckoutStep(e, s) ==
  extend(<<
    extend(<< Put("pa", Str("checkout_option")),
              Put("t", Str("event")),
              Put("ea", eventName(e)),
              Put("ec", Or(category(e), Str("EnhancedEcommerce"))) >>),
    createCommonGAForm(e, s),
    pick(properties(e, CompletedCheckoutRenames), values(CompletedCheckoutRenames)) >>)

CheckoutRenames == << <<"step", "cos">>, <<"option", "col">> >>

mapViewedCheckoutStep(e, s) ==
  extend(<<
    extend(<< Put("ea", eventName(e)),
              Put("ec", Or(category(e), Str("EnhancedEcommerce"))),
              Put("ni", Num(1)),
              Put("pa", Str("checkout")),
              Put("t", Str("pageview")) >>),
    createCommonGAForm(e, s),
    formatProducts(products(e)),
    formatPage(e),
    pick(properties(e, CheckoutRenames), values(CheckoutRenames)) >>)

\* startedOrder mapped as an event hit instead of delegating
mapStartedOrderAsEvent(e, s) ==
  extend(<< mapViewedCheckoutStep(e, s), Put("t", Str("event")) >>)

mapStartedOrder(e, s) == mapViewedCheckoutStep(e, s)

mapUpdatedOrder(e, s) == mapViewedCheckoutStep(e, s)

\* one item payload of completedOrder
orderItem(e, s, product) ==
  extend(<<
    createCommonGAForm(e, s),
    Put("iq", quantity(productFacade(product))),
    Put("iv", category(productFacade(product))),
    Put("ip", prop(productFacade(product), "price")),
    Put("in", prop(productFacade(product), "name")),
    Put("ic", prop(productFacade(product), "sku")),
    Put("cu", currency(e)),
    Put("ti", orderId(e)),
    Put("t", Str("item")) >>)

\* the transaction payload of completedOrder
orderTransaction(e, s) ==
  extend(<<
    createPageDataForm(e, createCommonGAForm(e, s)),
    Put("ta", prop(e, "affiliation")),
    Put("ts", prop(e, "shipping")),
    Put("tr", revenue(e)),
    Put("t", Str("transaction")),
    Put("tt", prop(e, "tax")),
    Put("cu", currency(e)),
    Put("ti", orderId(e)) >>)

\* completedOrder with the items in reverse product order
mapCompletedOrderReversed(e, s) ==
  <<orderTransaction(e, s)>>
    \o [i \in 1..Len(products(e)) |->
          orderItem(e, s, products(e)[Len(products(e)) + 1 - i])]

\* completedOrder: [transaction].concat(products.map(item))
mapCompletedOrder(e, s) ==
  <<orderTransaction(e, s)>>
    \o [i \in 1..Len(products(e)) |-> orderItem(e, s, products(e)[i])]

RefundRenames == << <<"orderId", "ti">> >>

mapRefundedOrder(e, s) ==
  extend(<<
    extend(<< Put("ea", eventName(e)),
              Put("ec", Or(category(e), Str("EnhancedEcommerce"))),
              Put("ni", Num(1)),
              Put("pa", Str("refund")),
              Put("t", Str("event")) >>),
    createCommonGAForm(e, s),
    pick(properties(e, RefundRenames), values(RefundRenames)) >>)

ViewedPromotionRenames ==
  << <<"creative", "promo1cr">>, <<"id", "promo1id">>,
     <<"name", "promo1nm">>, <<"position", "promo1ps">> >>

\* viewedPromotion without the common form
mapViewedPromotionNoCommon(e, s) ==
  extend(<<
    Put("t", Str("pageview")),
    formatPage(e),
    pick(properties(e, ViewedPromotionRenames), values(ViewedPromotionRenames)) >>)

mapViewedPromotion(e, s) ==
  extend(<<
    Put("t", Str("pageview")),
    formatPage(e),
    createCommonGAForm(e, s),
    pick(properties(e, ViewedPromotionRenames), values(ViewedPromotionRenames)) >>)

ClickedPromotionRenames ==
  << <<"creative", "promo1cr">>, <<"id", "promo1id">>, <<"label", "el">>,
     <<"name", "promo1nm">>, <<"position", "promo1ps">> >>

mapClickedPromotion(e, s) ==
  extend(<<
    extend(<< Put("ea", eventName(e)),
              Put("ec", Or(category(e), Str("EnhancedEcommerce"))),
              Put("promoa", Str("click")),
              Put("t", Str("event")) >>),
    createCommonGAForm(e, s),
    pick(properties(e, ClickedPromotionRenames), values(ClickedPromotionRenames)) >>)

-----------------------------------------------------------------------------
(* Inputs: the messages and settings the operations are applied to *)

MaxProducts == 2

UserIdText == <<"u","s","e","r","1">>
AnonIdText == <<"a","n","o","n","7">>

Identities ==
  { [userId |-> u, anonymousId |-> a] :
      u \in {Undef, Str(UserIdText)}, a \in {Undef, Str(AnonIdText)} }

\* message.options('Google Analytics'): absent, { clientId: '555.777' }, { clientId: 5 }
OptionBlocks ==
  { Undef, Obj("clientId" :> Str("555.777")), Obj("clientId" :> Num(5)) }

IosText == <<"a","n","a","l","y","t","i","c","s","-","i","o","s">>
AndroidText == <<"A","n","a","l","y","t","i","c","s","-","A","N","D","R","O","I","D">>
XamarinText == <<"A","n","a","l","y","t","i","c","s",".","X","a","m","a","r","i","n">>
NodeText == <<"a","n","a","l","y","t","i","c","s","-","n","o","d","e">>

\* context.library: absent, a bare string, an object with a name, an object without
Libraries ==
  { Undef, Str(IosText), Obj("name" :> Str(AndroidText)), Obj("name" :> Str(XamarinText)),
    Obj("name" :> Str(NodeText)), Obj("version" :> Str("2.0.0")) }

BareContext ==
  [campaign |-> Undef, screen |-> Undef, locale |-> Undef, app |-> Undef,
   userAgent |-> Undef, ip |-> Undef, pageUrl |-> Undef, pageTitle |-> Undef,
   event |-> Undef, name |-> Undef, category |-> Undef]

FullContext ==
  [campaign |-> Obj(("name" :> Str("spring")) @@ ("source" :> Str("mail"))
                    @@ ("medium" :> Str("cpc")) @@ ("content" :> Str("ad1"))),
   screen |-> Obj(("width" :> Num(320)) @@ ("height" :> Num(480))),
   locale |-> Str("en-US"),
   app |-> Obj(("name" :> Str("shop")) @@ ("version" :> Str("1.2"))
               @@ ("appId" :> Str("com.shop")) @@ ("appInstallerId" :> Str("store"))),
   userAgent |-> Str("Mozilla"), ip |-> Str("10.0.0.1"),
   pageUrl |-> Str(<<"ctx.example.com", "/ctx", "?q=1">>), pageTitle |-> Str("Home"),
   event |-> Str("Completed Order"), name |-> Str("Cart"), category |-> Str("Docs")]

PartialContext ==
  [campaign |-> Obj("name" :> Str("spring")),
   screen |-> Obj("width" :> Num(320)),
   locale |-> Undef, app |-> Obj("name" :> Str("shop")),
   userAgent |-> Undef, ip |-> Undef,
   pageUrl |-> Str(<<"", "/relative", "">>), pageTitle |-> Undef,
   event |-> Str("Viewed Thing"), name |-> Str("Cart"), category |-> Undef]

Contexts == {BareContext, FullContext, PartialContext}

FullProduct ==
  ("id" :> Str("p-1")) @@ ("sku" :> Str("sku-1")) @@ ("name" :> Str("Brush"))
  @@ ("price" :> Num(3)) @@ ("quantity" :> Num(2)) @@ ("category" :> Str("Care"))
  @@ ("brand" :> Str("Acme")) @@ ("variant" :> Str("red"))

SparseProduct == ("id" :> Str("p-2")) @@ ("sku" :> Str("sku-2"))

ProductSet == {FullProduct, SparseProduct}

RECURSIVE SeqsUpTo(_, _)
SeqsUpTo(S, n) ==
  IF n = 0 THEN {<<>>}
  ELSE SeqsUpTo(S, n - 1)
       \cup {Append(q, x) : q \in {r \in SeqsUpTo(S, n - 1) : Len(r) = n - 1}, x \in S}

ProductLists == SeqsUpTo(ProductSet, MaxProducts)

FullOrder ==
  ("orderId" :> Str("o-1")) @@ ("currency" :> Str("EUR")) @@ ("affiliation" :> Str("web"))
  @@ ("shipping" :> Num(4)) @@ ("revenue" :> Num(30)) @@ ("tax" :> Num(2))
  @@ ("total" :> Num(36)) @@ ("url" :> Str(<<"order.example.com", "/checkout", "?step=2">>))

SparseOrder == ("total" :> Num(36))

OrderBags ==
  { ("products" :> Arr(ps)) @@ FullOrder : ps \in ProductLists }
  \cup { ("products" :> Arr(ps)) @@ SparseOrder : ps \in {<<>>, <<SparseProduct>>} }

TrackBag ==
  ("value" :> Num(7)) @@ ("label" :> Str("hero")) @@ ("category" :> Str("Shop"))
  @@ ("url" :> Str(<<"prop.example.com", "/prop", "">>)) @@ ("revenue" :> Num(30))
  @@ ("referrer" :> Str("ref.example.com"))

PromotionBag ==
  ("id" :> Str("promo-1")) @@ ("name" :> Str("Sale")) @@ ("creative" :> Str("banner"))
  @@ ("position" :> Str("top")) @@ ("step" :> Num(2)) @@ ("option" :> Str("visa"))
  @@ ("label" :> Str("hero"))

\* properties whose custom-field sources are present but falsy
ZeroBag == ("revenue" :> Num(0)) @@ ("label" :> Str("zero"))

PropertyBags == {EmptyObj, TrackBag, PromotionBag, FullProduct, ZeroBag} \cup OrderBags

\* facade.traits(): none, or traits under the names the settings map
TraitBag == ("revenue" :> Num(99)) @@ ("label" :> Str("vip")) @@ ("plan" :> Str("pro"))

TraitSets == {EmptyObj, TraitBag}

Message(id, o, l, c, p, t) ==
  [userId |-> id.userId, anonymousId |-> id.anonymousId, options |-> o, library |-> l,
   campaign |-> c.campaign, screen |-> c.screen, locale |-> c.locale, app |-> c.app,
   userAgent |-> c.userAgent, ip |-> c.ip, pageUrl |-> c.pageUrl,
   pageTitle |-> c.pageTitle, properties |-> p, traits |-> t,
   event |-> c.event, name |-> c.name, category |-> c.category]

\* messages that vary who sent them: identity, client id override, library
IdentityMessages ==
  { Message(id, o, l, c, p, EmptyObj) :
      id \in Identities, o \in OptionBlocks, l \in Libraries,
      c \in {BareContext, FullContext},
      p \in {TrackBag, ("products" :> Arr(<<SparseProduct, FullProduct>>)) @@ FullOrder} }

\* messages that vary what they carry: context, properties, traits
ContentMessages ==
  { Message(id, Undef, l, c, p, t) :
      id \in {i \in Identities : (i.userId = Undef) # (i.anonymousId = Undef)},
      l \in {Undef, Str(IosText)}, c \in Contexts, p \in PropertyBags, t \in TraitSets }

Events == IdentityMessages \cup ContentMessages

ServersideId == Str("UA-27033709-11")
MobileId == Str("UA-27033709-23")

\* settings.metrics and settings.dimensions as configured, or left out
CustomMaps ==
  { [metrics |-> Obj(<< <<"revenue", <<"metric", "8", "">> >> >>),
     dimensions |-> Obj(<< <<"label", <<"dimension", "2", "">> >>,
                           <<"plan", <<"dimension", "7", "x">> >> >>)],
    [metrics |-> Undef, dimensions |-> Undef] }

SettingsSet ==
  { [serversideTrackingId |-> ServersideId, mobileTrackingId |-> m,
     sendUserId |-> su, nonInteraction |-> Undef, enhancedEcommerce |-> ee,
     metrics |-> cm.metrics, dimensions |-> cm.dimensions] :
      m \in {Undef, MobileId}, ee \in {Bool(TRUE), Bool(FALSE)},
      su \in {Bool(TRUE), Bool(FALSE)}, cm \in CustomMaps }

\* properties of track events: a value and a revenue that are no integers, are
\* zero, are negative, are no numbers; a nonInteraction flag set and cleared
TrackBags ==
  { ("value" :> Tenths(75)),
    ("value" :> Num(0)) @@ ("revenue" :> Num(30)) @@ ("nonInteraction" :> Bool(FALSE))
      @@ ("label" :> Str("hero")) @@ ("category" :> Str("Shop")),
    ("revenue" :> Tenths(199)) @@ ("nonInteraction" :> Bool(TRUE)),
    ("value" :> Tenths(-25)) @@ ("revenue" :> Num(30)),
    ("value" :> Str("high")) @@ ("label" :> Str("hero")),
    ("total" :> Num(36)) @@ ("category" :> Str("Shop")) }

TrackMessages ==
  { Message([userId |-> Str(UserIdText), anonymousId |-> Undef], Undef, Undef, c, p, EmptyObj) :
      c \in Contexts, p \in TrackBags }

\* settings.nonInteraction: left out, or set
TrackSettings ==
  { [serversideTrackingId |-> ServersideId, mobileTrackingId |-> MobileId,
     sendUserId |-> Bool(TRUE), nonInteraction |-> ni, enhancedEcommerce |-> Bool(TRUE),
     metrics |-> cm.metrics, dimensions |-> cm.dimensions] :
      ni \in {Undef, Bool(TRUE)}, cm \in {x \in CustomMaps : Truthy(x.metrics)} }

\* a product whose own keys are payload keys
CollidingProduct ==
  ("id" :> Str("p-9")) @@ ("cid" :> Str("evil")) @@ ("tid" :> Str("UA-0-0"))
  @@ ("v" :> Num(9)) @@ ("t" :> Str("timing")) @@ ("pa" :> Str("purchase"))

\* properties whose own keys are payload keys: the hit type and action tags,
\* the client id, the tracking id, the protocol version
CollidingBag ==
  ("products" :> Arr(<<CollidingProduct>>)) @@ ("id" :> Str("p-9"))
  @@ ("orderId" :> Str("o-9")) @@ ("step" :> Num(2)) @@ ("label" :> Str("hero"))
  @@ ("revenue" :> Num(30)) @@ ("cid" :> Str("evil")) @@ ("tid" :> Str("UA-0-0"))
  @@ ("v" :> Num(9)) @@ ("t" :> Str("timing")) @@ ("pa" :> Str("purchase"))
  @@ ("ni" :> Num(0)) @@ ("promoa" :> Str("view"))

CollidingTraits ==
  ("cid" :> Str("evil")) @@ ("tid" :> Str("UA-0-0")) @@ ("v" :> Num(9))
  @@ ("t" :> Str("timing"))

EdgeMessages ==
  { Message([userId |-> Str(UserIdText), anonymousId |-> Undef], Undef, l, FullContext,
            CollidingBag, t) :
      l \in {Undef, Str(IosText)}, t \in {EmptyObj, CollidingTraits} }

\* custom maps with one name (revenue) in both maps, a name no message has
\* (missing), and vendor names that are payload keys instead of metric<N> or
\* dimension<N>
OverlapMaps ==
  [metrics |-> Obj(<< <<"revenue", <<"metric", "8", "">> >>,
                      <<"cid", <<"cid", "", "">> >> >>),
   dimensions |-> Obj(<< <<"label", <<"dimension", "2", "">> >>,
                         <<"plan", <<"dimension", "7", "x">> >>,
                         <<"t", <<"t", "", "">> >>,
                         <<"revenue", <<"dimension", "3", "">> >>,
                         <<"missing", <<"dimension", "5", "">> >> >>)]

EdgeSettings ==
  { [serversideTrackingId |-> ServersideId, mobileTrackingId |-> MobileId,
     sendUserId |-> Bool(TRUE), nonInteraction |-> Undef, enhancedEcommerce |-> Bool(TRUE),
     metrics |-> OverlapMaps.metrics, dimensions |-> OverlapMaps.dimensions] }

\* the <<message, settings>> pairs a mapper call is made with
Inputs ==
  { <<e, s>> : e \in IdentityMessages,
               s \in {x \in SettingsSet : Truthy(x.metrics)} }
  \cup
  { <<e, s>> : e \in ContentMessages,
               s \in {x \in SettingsSet : x.mobileTrackingId = MobileId /\ Truthy(x.sendUserId)} }
  \cup
  { <<e, s>> : e \in TrackMessages, s \in TrackSettings }
  \cup
  { <<e, s>> : e \in EdgeMessages, s \in EdgeSettings }

-----------------------------------------------------------------------------
(* The mapper as a state machine: each action is one call of an exported   *)
(* operation on the current message and settings.                          *)

\* the dispatcher calls of a behaviour: calls share nothing but the settings,
\* each has its own batch, requests and callback
Calls == {1}
NoCall == <<"none">>

Threw == [threw |-> TRUE, payloads |-> <<>>]
Returned(ps) == [threw |-> FALSE, payloads |-> ps]

\* the caller has made no call yet
NoPrevious == [op |-> "none", result |-> Returned(<<>>)]

\* the outcome of a single-payload operation
single(e, s, payload) == IF commonThrows(e, s) THEN Threw ELSE Returned(<<payload>>)

DispatchIdle ==
  /\ invoked = [c \in Calls |-> <<>>]
  /\ sends = [c \in Calls |-> <<>>]
  /\ pending = [c \in Calls |-> 0]
  /\ batchDone = [c \in Calls |-> FALSE]
  /\ deferred = [c \in Calls |-> <<>>]
  /\ calls = [c \in Calls |-> <<>>]
  /\ firstErr = [c \in Calls |-> 0]
  /\ posted = [c \in Calls |-> <<>>]

Init ==
  /\ \E in \in Inputs :
       /\ in[2].enhancedEcommerce = Bool(TRUE)
       /\ event = in[1]
       /\ settings = in[2]
  /\ op = "none"
  /\ result = Returned(<<>>)
  /\ before = NoPrevious
  /\ DispatchIdle

\* the message's own products after formatProducts(track.products()): each
\* product is wrapped in its own Track and renamed through properties(renames)
ownProducts(e) ==
  IF Tag(prop(e, "products")) = "array"
  THEN With(e.properties, "products",
            Arr([i \in 1..Len(products(e)) |->
                   ownProperties(productFacade(products(e)[i]), ProductRenames(i))]))
  ELSE e.properties

\* the message as the operation leaves it: what its calls of
\* facade.properties(renames) did to the message's own properties
eventAfter(name, e) ==
  CASE name \in {"clickedProduct", "addedProduct", "removedProduct"} ->
         [e EXCEPT !.properties = ownProperties(e, ProductRenames(1))]
    [] name = "completedCheckoutStep" ->
         [e EXCEPT !.properties = ownProperties(e, CompletedCheckoutRenames)]
    [] name \in {"viewedCheckoutStep", "startedOrder", "updatedOrder"} ->
         [e EXCEPT !.properties =
            ownProperties([e EXCEPT !.properties = ownProducts(e)], CheckoutRenames)]
    [] name = "refundedOrder" ->
         [e EXCEPT !.properties = ownProperties(e, RefundRenames)]
    [] name = "viewedPromotion" ->
         [e EXCEPT !.properties = ownProperties(e, ViewedPromotionRenames)]
    [] name = "clickedPromotion" ->
         [e EXCEPT !.properties = ownProperties(e, ClickedPromotionRenames)]
    [] OTHER -> e

\* one synchronous call: the caller is idle, calls, and holds the result; a
\* caller that has called before calls the same operation again.  The common
\* form is built before any rename, so a call that throws has renamed nothing.
Apply(name, r) ==
  /\ op = "none"
  /\ before.op \in {"none", name}
  /\ op' = name
  /\ result' = r
  /\ event' = IF r.threw THEN event ELSE eventAfter(name, event)
  /\ UNCHANGED <<settings, before, dispatchVars>>

Page == Apply("page", single(event, settings, mapPage(event, settings)))
Screen == Apply("screen", single(event, settings, mapScreen(event, settings)))
Track == Apply("track", single(event, settings, mapTrack(event, settings)))
ClickedProduct ==
  Apply("clickedProduct", single(event, settings, mapClickedProduct(event, settings)))
AddedProduct ==
  Apply("addedProduct", single(event, settings, mapAddedProduct(event, settings)))
RemovedProduct ==
  Apply("removedProduct", single(event, settings, mapRemovedProduct(event, settings)))
StartedOrder ==
  Apply("startedOrder", single(event, settings, mapStartedOrder(event, settings)))
UpdatedOrder ==
  Apply("updatedOrder", single(event, settings, mapUpdatedOrder(event, settings)))
CompletedCheckoutStep ==
  Apply("completedCheckoutStep",
        single(event, settings, mapCompletedCheckoutStep(event, settings)))
ViewedCheckoutStep ==
  Apply("viewedCheckoutStep", single(event, settings, mapViewedCheckoutStep(event, settings)))
CompletedOrder ==
  Apply("completedOrder",
        IF commonThrows(event, settings) THEN Threw
        ELSE Returned(mapCompletedOrder(event, settings)))
RefundedOrder ==
  Apply("refundedOrder", single(event, settings, mapRefundedOrder(event, settings)))
ViewedPromotion ==
  Apply("viewedPromotion", single(event, settings, mapViewedPromotion(event, settings)))
ClickedPromotion ==
  Apply("clickedPromotion", single(event, settings, mapClickedPromotion(event, settings)))

\* the caller is done with the payloads; they are discarded
Return ==
  /\ op # "none"
  /\ op' = "none"
  /\ result' = Returned(<<>>)
  /\ before' = [op |-> op, result |-> result]
  /\ UNCHANGED <<event, settings, dispatchVars>>

Next ==
  \/ Page
  \/ Screen
  \/ Track
  \/ ClickedProduct
  \/ AddedProduct
  \/ RemovedProduct
  \/ StartedOrder
  \/ UpdatedOrder
  \/ CompletedCheckoutStep
  \/ ViewedCheckoutStep
  \/ CompletedOrder
  \/ RefundedOrder
  \/ ViewedPromotion
  \/ ClickedPromotion
  \/ Return

Spec == Init /\ [][Next]_vars

-----------------------------------------------------------------------------
(* The dispatcher (src/lib/universal.js).  A call of a dispatcher method    *)
(* maps the message, POSTs each payload and reports to the caller's fn.     *)

MaxBatchProducts == 2

\* methods defined on GA.prototype
PrototypeMethods ==
  {"track", "viewedCheckoutStep", "completedOrder", "refundedOrder",
   "viewedPromotion", "clickedPromotion", "page", "screen"}

\* whether this.<name> is a method of the dispatcher built with settings s
hasMethod(s, name) == name \in PrototypeMethods

\* the methods that call their mapper without this.settings
WithoutSettings == {"refundedOrder", "viewedPromotion", "clickedPromotion"}

\* createCommonGAForm(track, undefined): reading a setting of undefined is a TypeError
mapperThrows(name, e, s) == name \in WithoutSettings \/ commonThrows(e, s)

\* the payloads the method's mapper returns
mapperPayloads(name, e, s) ==
  CASE name = "track"              -> <<mapTrack(e, s)>>
    [] name = "page"               -> <<mapPage(e, s)>>
    [] name = "screen"             -> <<mapScreen(e, s)>>
    [] name = "viewedCheckoutStep" -> <<mapViewedCheckoutStep(e, s)>>
    [] name = "completedOrder"     -> mapCompletedOrder(e, s)
    [] name = "refundedOrder"      -> <<mapRefundedOrder(e, s)>>
    [] name = "viewedPromotion"    -> <<mapViewedPromotion(e, s)>>
    [] name = "clickedPromotion"   -> <<mapClickedPromotion(e, s)>>

RECURSIVE Repeat(_, _)
Repeat(x, n) == IF n = 0 THEN <<>> ELSE Append(Repeat(x, n - 1), x)

DispatchMessages ==
  { [userId |-> id.userId, anonymousId |-> id.anonymousId, options |-> Undef,
     library |-> Undef, campaign |-> Undef, screen |-> Undef, locale |-> Undef,
     app |-> Undef, userAgent |-> Undef, ip |-> Undef, pageUrl |-> Undef,
     pageTitle |-> Undef, traits |-> EmptyObj, event |-> Str("Completed Order"),
     name |-> Str("Cart"), category |-> Undef,
     properties |-> ("products" :> Arr(Repeat(FullProduct, n))) @@ FullOrder] :
      n \in 0..MaxBatchProducts,
      id \in { [userId |-> Str(UserIdText), anonymousId |-> Undef],
               [userId |-> Undef, anonymousId |-> Undef] } }

\* one Batch kept by the dispatcher for all its calls: the functions pushed by
\* an earlier completedOrder are still in it when a later call pushes its own
batchFnsShared(c, own) ==
  LET earlier == {d \in DOMAIN invoked :
                    /\ d < c
                    /\ invoked[d] # <<>>
                    /\ invoked[d][1].method = "completedOrder"
                    /\ ~invoked[d][1].threw}
  IN  IF earlier = {} THEN own
      ELSE mapperPayloads("completedOrder",
                          invoked[CHOOSE d \in earlier : TRUE][1].message, settings) \o own

\* var batch = new Batch(): the batch of call c holds one function per payload
\* of that call and nothing else
batchFns(c, own) == own

\* Batch with concurrency(1): end() starts the first function only
toStartOne(total) == 1

\* Batch: concurrency(Infinity), so end() starts every pushed function
toStart(total) == total

\* batch.throws(true)
batchThrows == TRUE

\* callback without the `if (done) return` guard
batchCallbackNoGuard(done, pend, i, failed) ==
  IF failed /\ batchThrows
  THEN [done |-> TRUE, pending |-> pend, schedule |-> << <<"error", i>> >>, next |-> FALSE]
  ELSE IF pend - 1 # 0
  THEN [done |-> done, pending |-> pend - 1, schedule |-> <<>>, next |-> TRUE]
  ELSE [done |-> done, pending |-> 0, schedule |-> << <<"success">> >>, next |-> FALSE]

\* callback that reports success on the first success instead of the last
batchCallbackEarly(done, pend, i, failed) ==
  IF done
  THEN [done |-> TRUE, pending |-> pend, schedule |-> <<>>, next |-> FALSE]
  ELSE IF failed /\ batchThrows
  THEN [done |-> TRUE, pending |-> pend, schedule |-> << <<"error", i>> >>, next |-> FALSE]
  ELSE [done |-> TRUE, pending |-> pend - 1, schedule |-> << <<"success">> >>, next |-> TRUE]

\* Batch#end's callback(err, res) for function i: what becomes of done and
\* pending, which fn invocation is deferred, whether next() is called
batchCallback(done, pend, i, failed) ==
  IF done
  THEN [done |-> TRUE, pending |-> pend, schedule |-> <<>>, next |-> FALSE]
  ELSE IF failed /\ batchThrows
  THEN [done |-> TRUE, pending |-> pend, schedule |-> << <<"error", i>> >>, next |-> FALSE]
  ELSE IF pend - 1 # 0
  THEN [done |-> FALSE, pending |-> pend - 1, schedule |-> <<>>, next |-> TRUE]
  ELSE [done |-> FALSE, pending |-> 0,
        schedule |-> IF batchThrows THEN << <<"success">> >> ELSE << <<"collected">> >>,
        next |-> FALSE]

\* handle that drops the error of a failed response
handleSwallow(i, failed) == <<"success">>

\* integration.handle(fn): what fn is called with for a response
handle(i, failed) == IF failed THEN <<"error", i>> ELSE <<"success">>

\* sends with the first n idle ones started
startNext(ss, n) ==
  [i \in 1..Len(ss) |->
     IF ss[i] = "idle" /\ Cardinality({j \in 1..(i - 1) : ss[j] = "idle"}) < n
     THEN "inflight" ELSE ss[i]]

started(ss) == Cardinality({i \in 1..Len(ss) : ss[i] # "idle"})

\* a dispatcher method whose mapper raises: the exception reaches the caller
Raise(c, name, e) ==
  /\ invoked' = [invoked EXCEPT ![c] = <<[method |-> name, message |-> e, threw |-> TRUE]>>]
  /\ UNCHANGED <<sends, pending, batchDone, deferred, calls, firstErr, posted>>

\* track, page, screen, viewedCheckoutStep, refundedOrder, viewedPromotion,
\* clickedPromotion: one POST of the mapper's payload
DispatchOne(c, name, e) ==
  /\ invoked[c] = <<>>
  /\ hasMethod(settings, name)
  /\ IF mapperThrows(name, e, settings)
     THEN Raise(c, name, e)
     ELSE /\ invoked' = [invoked EXCEPT
                           ![c] = <<[method |-> name, message |-> e, threw |-> FALSE]>>]
          /\ sends' = [sends EXCEPT ![c] = <<"inflight">>]
          /\ posted' = [posted EXCEPT ![c] = mapperPayloads(name, e, settings)]
          /\ UNCHANGED <<pending, batchDone, deferred, calls, firstErr>>
  /\ UNCHANGED <<event, settings, op, result, before>>

DispatchTrack(c, e) == DispatchOne(c, "track", e)
DispatchPage(c, e) == DispatchOne(c, "page", e)
DispatchScreen(c, e) == DispatchOne(c, "screen", e)
DispatchViewedCheckoutStep(c, e) == DispatchOne(c, "viewedCheckoutStep", e)
DispatchRefundedOrder(c, e) == DispatchOne(c, "refundedOrder", e)
DispatchViewedPromotion(c, e) == DispatchOne(c, "viewedPromotion", e)
DispatchClickedPromotion(c, e) == DispatchOne(c, "clickedPromotion", e)

\* completedOrder: push one function per payload, then batch.end(fn)
DispatchCompletedOrder(c, e) ==
  /\ invoked[c] = <<>>
  /\ hasMethod(settings, "completedOrder")
  /\ IF mapperThrows("completedOrder", e, settings)
     THEN Raise(c, "completedOrder", e)
     ELSE LET payloads == batchFns(c, mapperPayloads("completedOrder", e, settings))
              total    == Len(payloads)
              ss       == startNext([i \in 1..total |-> "idle"], toStart(total))
          IN  /\ invoked' = [invoked EXCEPT
                    ![c] = <<[method |-> "completedOrder", message |-> e, threw |-> FALSE]>>]
              /\ sends' = [sends EXCEPT ![c] = ss]
              /\ pending' = [pending EXCEPT ![c] = total]
              /\ posted' = [posted EXCEPT ![c] = SubSeq(payloads, 1, started(ss))]
              /\ UNCHANGED <<batchDone, deferred, calls, firstErr>>
  /\ UNCHANGED <<event, settings, op, result, before>>

\* the response to the single POST of a one-payload method arrives
RespondOne(c, failed) ==
  /\ invoked[c] # <<>>
  /\ invoked[c][1].method # "completedOrder"
  /\ sends[c] = <<"inflight">>
  /\ sends' = [sends EXCEPT ![c] = <<IF failed THEN "err" ELSE "ok">>]
  /\ calls' = [calls EXCEPT ![c] = Append(@, handle(1, failed))]
  /\ firstErr' = [firstErr EXCEPT ![c] = IF failed THEN 1 ELSE 0]
  /\ UNCHANGED <<event, settings, op, result, before, invoked, pending, batchDone, deferred, posted>>

\* the response to POST i of a completedOrder batch arrives
RespondBatch(c, i, failed) ==
  /\ invoked[c] # <<>>
  /\ invoked[c][1].method = "completedOrder"
  /\ i \in 1..Len(sends[c])
  /\ sends[c][i] = "inflight"
  /\ LET r   == batchCallback(batchDone[c], pending[c], i, handle(i, failed)[1] = "error")
         ss1 == [sends[c] EXCEPT ![i] = IF failed THEN "err" ELSE "ok"]
         ss2 == IF r.next THEN startNext(ss1, 1) ELSE ss1
     IN  /\ sends' = [sends EXCEPT ![c] = ss2]
         /\ batchDone' = [batchDone EXCEPT ![c] = r.done]
         /\ pending' = [pending EXCEPT ![c] = r.pending]
         /\ deferred' = [deferred EXCEPT ![c] = @ \o r.schedule]
         /\ posted' = [posted EXCEPT
               ![c] = SubSeq(batchFns(c, mapperPayloads("completedOrder",
                                                        invoked[c][1].message, settings)),
                             1, started(ss2))]
  /\ firstErr' = [firstErr EXCEPT ![c] = IF failed /\ @ = 0 THEN i ELSE @]
  /\ UNCHANGED <<event, settings, op, result, before, invoked, calls>>

\* a deferred invocation of the caller's fn runs
RunDeferred(c) ==
  /\ deferred[c] # <<>>
  /\ calls' = [calls EXCEPT ![c] = Append(@, Head(deferred[c]))]
  /\ deferred' = [deferred EXCEPT ![c] = Tail(@)]
  /\ UNCHANGED <<event, settings, op, result, before, invoked, sends, pending, batchDone,
                 firstErr, posted>>

DispatchInit ==
  /\ event \in {e \in DispatchMessages : e.userId # Undef /\ products(e) = <<>>}
  /\ settings \in SettingsSet
  /\ op = "none"
  /\ result = Returned(<<>>)
  /\ before = NoPrevious
  /\ DispatchIdle

DispatchNext ==
  \E c \in Calls :
    \/ \E e \in DispatchMessages : DispatchTrack(c, e)
    \/ \E e \in DispatchMessages : DispatchPage(c, e)
    \/ \E e \in DispatchMessages : DispatchScreen(c, e)
    \/ \E e \in DispatchMessages : DispatchViewedCheckoutStep(c, e)
    \/ \E e \in DispatchMessages : DispatchCompletedOrder(c, e)
    \/ \E e \in DispatchMessages : DispatchRefundedOrder(c, e)
    \/ \E e \in DispatchMessages : DispatchViewedPromotion(c, e)
    \/ \E e \in DispatchMessages : DispatchClickedPromotion(c, e)
    \/ \E failed \in BOOLEAN : RespondOne(c, failed)
    \/ \E i \in 1..(MaxBatchProducts + 1), failed \in BOOLEAN : RespondBatch(c, i, failed)
    \/ RunDeferred(c)

DispatchSpec == DispatchInit /\ [][DispatchNext]_vars

-----------------------------------------------------------------------------
(* Two dispatcher calls in flight at once on one integration object: the    *)
(* responses of their requests arrive in any order.                         *)

Concurrent == {1, 2}

\* the messages the two callers send: with an identity and without (the
\* mapping raises), orders below the largest batch
ConcurrentMessages == {e \in DispatchMessages : Len(products(e)) < MaxBatchProducts}

ConcurrentInit ==
  /\ event \in {e \in ConcurrentMessages : e.userId # Undef /\ products(e) = <<>>}
  /\ settings \in {s \in SettingsSet :
                     /\ s.mobileTrackingId = Undef
                     /\ Truthy(s.sendUserId)
                     /\ Truthy(s.enhancedEcommerce)
                     /\ Truthy(s.metrics)}
  /\ op = "none"
  /\ result = Returned(<<>>)
  /\ before = NoPrevious
  /\ invoked = [c \in Concurrent |-> <<>>]
  /\ sends = [c \in Concurrent |-> <<>>]
  /\ pending = [c \in Concurrent |-> 0]
  /\ batchDone = [c \in Concurrent |-> FALSE]
  /\ deferred = [c \in Concurrent |-> <<>>]
  /\ calls = [c \in Concurrent |-> <<>>]
  /\ firstErr = [c \in Concurrent |-> 0]
  /\ posted = [c \in Concurrent |-> <<>>]

ConcurrentNext ==
  \E c \in Concurrent :
    \/ \E e \in ConcurrentMessages : DispatchTrack(c, e)
    \/ \E e \in ConcurrentMessages : DispatchCompletedOrder(c, e)
    \/ \E failed \in BOOLEAN : RespondOne(c, failed)
    \/ \E i \in 1..(MaxBatchProducts + 1), failed \in BOOLEAN : RespondBatch(c, i, failed)
    \/ RunDeferred(c)

ConcurrentSpec == ConcurrentInit /\ [][ConcurrentNext]_vars

-----------------------------------------------------------------------------
(* Properties of the mapper, checked under Spec *)

\* the payloads the current mapper call returned
Payloads == {result.payloads[i] : i \in 1..Len(result.payloads)}

\* the product list of the current message, read off its properties
OrderProducts ==
  IF "products" \in DOMAIN event.properties
  THEN event.properties["products"][2]
  ELSE <<>>

\* C1: every payload returned by a mapper operation (each element of
\* completedOrder's result included) has the keys cid, tid and v, and v = 1.
C1_CommonKeys ==
  \A p \in Payloads : {"cid", "tid", "v"} \subseteq DOMAIN p /\ p["v"] = Num(1)

C1_Witness ==
  /\ op = "viewedPromotion"
  /\ Len(result.payloads) = 1
  /\ "promo1id" \in DOMAIN result.payloads[1]
  /\ "dh" \in DOMAIN result.payloads[1]
  /\ result.payloads[1]["v"] = Num(1)

\* C6: completedOrder on an order with N products returns N + 1 payloads, the
\* first a transaction, the i-th following one the item of the i-th product,
\* each item with the transaction's ti, cu, cid and tid.
C6_OrderFanOut ==
  (op = "completedOrder" /\ ~result.threw) =>
    LET ps == result.payloads
    IN  /\ Len(ps) = Len(OrderProducts) + 1
        /\ ps[1]["t"] = Str("transaction")
        /\ \A i \in 1..Len(OrderProducts) :
             /\ ps[i + 1]["t"] = Str("item")
             /\ ps[i + 1]["ic"] = Get(OrderProducts[i], "sku")
             /\ ps[i + 1]["in"] = Get(OrderProducts[i], "name")
             /\ ps[i + 1]["ip"] = Get(OrderProducts[i], "price")
             /\ ps[i + 1]["iv"] = Get(OrderProducts[i], "category")
             /\ \A k \in {"ti", "cu", "cid", "tid"} : ps[i + 1][k] = ps[1][k]

C6_Witness ==
  /\ op = "completedOrder"
  /\ Len(result.payloads) = 3
  /\ result.payloads[2]["ic"] = Str("sku-2")
  /\ result.payloads[3]["ic"] = Str("sku-1")
  /\ result.payloads[3]["ti"] = Str("o-1")

\* a value that is undefined, null or the empty string
IsBlank(v) == Tag(v) = "undefined" \/ (Tag(v) = "string" /\ Len(Val(v)) = 0)

\* C8: no payload of any mapper has a key whose value is undefined, null or
\* the empty string: a vendor field without a source value is absent.
C8_NoBlankValues ==
  \A p \in Payloads : \A k \in DOMAIN p : ~IsBlank(p[k])

\* the libraries of the message set that name a mobile SDK
MobileLibraries ==
  { Str(IosText), Obj("name" :> Str(AndroidText)), Obj("name" :> Str(XamarinText)) }

\* C9: tid is settings.mobileTrackingId exactly when the library names a
\* mobile SDK (any letter case) and mobileTrackingId is configured; otherwise
\* tid is settings.serversideTrackingId.
C9_TrackingId ==
  \A p \in Payloads :
    p["tid"] = IF event.library \in MobileLibraries /\ Truthy(settings.mobileTrackingId)
               THEN settings.mobileTrackingId
               ELSE settings.serversideTrackingId

C9_Witness ==
  /\ op = "screen"
  /\ event.library = Obj("name" :> Str(AndroidText))
  /\ Len(result.payloads) = 1
  /\ result.payloads[1]["tid"] = MobileId
  /\ MobileId # ServersideId

\* string-hash of the two identity strings, computed by hand
HashOfUserId == U32(1784, 55205)
HashOfAnonId == U32(1691, 34076)

NamelessLibrary == Obj("version" :> Str("2.0.0"))

\* C11: a mapper call on a message with neither userId nor anonymousId (and no
\* override client id) does not fail: it returns its payload(s).
C11_NoIdentityNoThrow ==
  (/\ op # "none"
   /\ event.userId = Undef
   /\ event.anonymousId = Undef
   /\ event.options = Undef
   /\ event.library # NamelessLibrary)
    => (~result.threw /\ Len(result.payloads) >= 1)

\* C12: a mapper call on a message that has an identity does not fail, whatever
\* optional inputs are missing (context, library, a library without a name,
\* campaign, screen, locale, app, user agent, ip, page url, custom maps,
\* mobileTrackingId), and a library without a name counts as not mobile.
C12_OptionalFieldsNoThrow ==
  (op # "none" /\ (Truthy(event.userId) \/ Truthy(event.anonymousId)))
    => /\ ~result.threw
       /\ Len(result.payloads) >= 1
       /\ event.library = NamelessLibrary =>
            \A p \in Payloads : p["tid"] = settings.serversideTrackingId

IsPrimitive(v) ==
  Tag(v) \in {"undefined", "string", "number", "tenths", "NaN", "boolean", "uint32"}

CustomFields == { <<"revenue", "metric8", "cm8">>, <<"label", "dimension2", "cd2">> }

\* the value a semantic name resolves to in the message: the property, else the trait
Resolved(name) ==
  IF Tag(Get(event.properties, name)) # "undefined"
  THEN Get(event.properties, name)
  ELSE Get(event.traits, name)

C16_PropertyOverTrait ==
  \A p \in Payloads : \A f \in CustomFields :
    (Truthy(settings.metrics) /\ f[1] \in DOMAIN event.traits) =>
      /\ f[3] \in DOMAIN p
      /\ p[f[3]] = IF f[1] \in DOMAIN event.properties
                   THEN event.properties[f[1]]
                   ELSE event.traits[f[1]]

C16_Witness ==
  /\ op = "screen"
  /\ Len(result.payloads) = 1
  /\ Get(event.traits, "revenue") = Num(99)
  /\ Get(event.properties, "revenue") = Num(0)
  /\ Get(result.payloads[1], "cm8") = Num(0)
  /\ Get(result.payloads[1], "cd2") = Str("zero")

\* the product fields and the suffix of their payload keys
ProductFields ==
  { <<"brand", "br">>, <<"category", "ca">>, <<"id", "id">>, <<"name", "nm">>,
    <<"price", "pr">>, <<"quantity", "qty">>, <<"variant", "va">> }

\* the products the current operation formats: the message's properties as
\* the one product of a product action, the product list of a checkout step
FormattedProducts ==
  IF op \in {"clickedProduct", "addedProduct", "removedProduct"} THEN <<event.properties>>
  ELSE IF op \in {"viewedCheckoutStep", "startedOrder", "updatedOrder"} THEN OrderProducts
  ELSE <<>>

\* C17: for K formatted products, the payload has the key pr<n><suffix>
\* exactly when product n has that field, with the product's value, and has no
\* pr<m> key for m > K; a product lacking a field omits exactly that key.
C17_ProductSlots ==
  (op \in {"clickedProduct", "addedProduct", "removedProduct",
           "viewedCheckoutStep", "startedOrder", "updatedOrder"} /\ ~result.threw) =>
    LET p == result.payloads[1]
        K == Len(FormattedProducts)
    IN  /\ \A n \in 1..K : \A f \in ProductFields :
             IF f[1] \in DOMAIN FormattedProducts[n]
             THEN /\ ("pr" \o ToString(n) \o f[2]) \in DOMAIN p
                  /\ p["pr" \o ToString(n) \o f[2]] = FormattedProducts[n][f[1]]
             ELSE ("pr" \o ToString(n) \o f[2]) \notin DOMAIN p
        /\ \A m \in (K + 1)..(MaxProducts + 1) : \A f \in ProductFields :
             ("pr" \o ToString(m) \o f[2]) \notin DOMAIN p

\* payload p has dh = h and dp = d, a key being absent when its value is empty
HasUrlFields(p, h, d) ==
  /\ IF Truthy(h) THEN Get(p, "dh") = h ELSE "dh" \notin DOMAIN p
  /\ IF Truthy(d) THEN Get(p, "dp") = d ELSE "dp" \notin DOMAIN p

\* the operations that put dh and dp through createPageDataForm
PageDataOps == {"page", "track", "completedOrder"}

\* the enhanced e-commerce operations that put dh and dp through formatPage
FormatPageOps ==
  {"clickedProduct", "addedProduct", "removedProduct", "viewedCheckoutStep",
   "startedOrder", "updatedOrder", "viewedPromotion"}

\* C18 as stated: in every operation that emits dh and dp, a message with a
\* URL string in properties.url gets dh and dp from that URL and not from
\* context.page.url.
C18_UrlPrecedence ==
  (/\ op \in PageDataOps \cup FormatPageOps
   /\ ~result.threw
   /\ IsString(Get(event.properties, "url")))
    => /\ Get(result.payloads[1], "dh") = parseHostname(event.properties["url"])
       /\ Get(result.payloads[1], "dp") \in {parsePath(event.properties["url"]),
                                              parsePathname(event.properties["url"])}

\* C18 amended: page, track and the transaction of completedOrder take dh and
\* dp (path with query) from properties.url when it is a non-empty string and
\* from context.page.url only when properties.url is absent; the enhanced
\* e-commerce operations that add URL fields take dh and dp (pathname) from
\* context.page.url alone.
C18_UrlSource ==
  /\ (op \in PageDataOps /\ ~result.threw) =>
       LET u == IF Truthy(Get(event.properties, "url"))
                THEN event.properties["url"] ELSE event.pageUrl
       IN  HasUrlFields(result.payloads[1], parseHostname(u), parsePath(u))
  /\ (op \in FormatPageOps /\ ~result.threw) =>
       HasUrlFields(result.payloads[1],
                    parseHostname(event.pageUrl), parsePathname(event.pageUrl))

C18_Witness ==
  /\ op = "completedOrder"
  /\ ~result.threw
  /\ event.pageUrl = Str(<<"ctx.example.com", "/ctx", "?q=1">>)
  /\ Get(event.properties, "url") = Str(<<"order.example.com", "/checkout", "?step=2">>)
  /\ Get(result.payloads[1], "dh") = Str("order.example.com")
  /\ Get(result.payloads[1], "dp") = Str("/checkout?step=2")

\* the integer nearest to a number, the upper one of two equally near
Nearest(v) ==
  IF Tag(v) = "tenths"
  THEN Num(CHOOSE m \in ((Val(v) \div 10) - 1)..((Val(v) \div 10) + 1) :
             10 * m - 5 <= Val(v) /\ Val(v) < 10 * m + 5)
  ELSE v

EventRevenue ==
  IF Truthy(Get(event.properties, "revenue")) THEN event.properties["revenue"]
  ELSE IF event.event \in {Str("Completed Order")} THEN Get(event.properties, "total")
  ELSE Undef

FixedTags(name) ==
  CASE name = "page"                  -> { <<"t", Str("pageview")>> }
    [] name = "screen"                -> { <<"t", Str("screenview")>> }
    [] name = "clickedProduct"        -> { <<"t", Str("event")>>, <<"pa", Str("click")>> }
    [] name = "addedProduct"          -> { <<"t", Str("event")>>, <<"pa", Str("add")>> }
    [] name = "removedProduct"        -> { <<"t", Str("event")>>, <<"pa", Str("remove")>> }
    [] name = "viewedCheckoutStep"    ->
         { <<"t", Str("pageview")>>, <<"pa", Str("checkout")>>, <<"ni", Num(1)>> }
    [] name = "completedCheckoutStep" ->
         { <<"t", Str("event")>>, <<"pa", Str("checkout_option")>> }
    [] name = "refundedOrder"         ->
         { <<"t", Str("event")>>, <<"pa", Str("refund")>>, <<"ni", Num(1)>> }
    [] name = "viewedPromotion"       -> { <<"t", Str("pageview")>> }
    [] name = "clickedPromotion"      -> { <<"t", Str("event")>>, <<"promoa", Str("click")>> }
    [] OTHER                          -> {}

\* C24: the hit type and action tags of a payload are those of the operation
\* that made it, whatever the message holds (properties, traits or products
\* named t, pa, ni or promoa, custom maps naming them): page t = pageview,
\* screen t = screenview, clicked/added/removed product t = event and
\* pa = click/add/remove, viewedCheckoutStep t = pageview, pa = checkout,
\* ni = 1, completedCheckoutStep t = event, pa = checkout_option,
\* refundedOrder t = event, pa = refund, ni = 1, viewedPromotion t = pageview,
\* clickedPromotion t = event, promoa = click.
C24_FixedTags ==
  \A p \in Payloads : \A tag \in FixedTags(op) : Get(p, tag[1]) = tag[2]

C24_Witness ==
  /\ op = "refundedOrder"
  /\ Len(result.payloads) = 1
  /\ Get(event.properties, "t") = Str("timing")
  /\ Get(event.properties, "pa") = Str("purchase")
  /\ Get(event.properties, "ni") = Num(0)
  /\ Get(event.traits, "t") = Str("timing")
  /\ Get(result.payloads[1], "t") = Str("event")
  /\ Get(result.payloads[1], "pa") = Str("refund")
  /\ Get(result.payloads[1], "ni") = Num(1)
  /\ Get(result.payloads[1], "ti") = Str("p-9")

\* the entries of the settings' two custom maps: <<semantic name, vendor name>>
ConfiguredEntries ==
  {entries(settings.metrics)[i] : i \in 1..Len(entries(settings.metrics))}
  \cup {entries(settings.dimensions)[i] : i \in 1..Len(entries(settings.dimensions))}

\* a vendor name of the form metric<N> or dimension<N>
WellFormed(vendor) ==
  vendor[1] \in {"metric", "dimension"} /\ vendor[2] # "" /\ vendor[3] = ""

\* the payload key of a well-formed vendor name
CustomKey(vendor) == (IF vendor[1] = "metric" THEN "cm" ELSE "cd") \o vendor[2]

\* the entries that are to give a key: well-formed, resolving to a value
Honoured ==
  {en \in ConfiguredEntries : WellFormed(en[2]) /\ Tag(Resolved(en[1])) # "undefined"}

\* the keys custom entries could give, rightly or wrongly
CustomKeys ==
  {"cm2", "cm3", "cm5", "cm7", "cm8", "cd2", "cd3", "cd5", "cd7", "cd8", "cd7x", "cm7x",
   "metric8", "dimension2", "dimension3", "dimension5", "dimension7x", "undefined"}

\* C25: every entry of settings.metrics and settings.dimensions that is
\* well-formed and resolves to a value gives its key cm<N> / cd<N> with that
\* value, a name configured in both maps giving both keys; an entry that
\* resolves to nothing or is malformed gives no key; and no call fails for it.
C25_EveryEntry ==
  (op # "none" /\ Truthy(event.userId) /\ event.library # NamelessLibrary) =>
    /\ ~result.threw
    /\ \A p \in Payloads :
         /\ \A en \in Honoured :
              CustomKey(en[2]) \in DOMAIN p /\ p[CustomKey(en[2])] = Resolved(en[1])
         /\ \A k \in CustomKeys \ {CustomKey(en[2]) : en \in Honoured} : k \notin DOMAIN p

\* the current message with nothing in its properties and traits
Stripped == [event EXCEPT !.properties = EmptyObj, !.traits = EmptyObj]

\* C26: in every payload of every operation, cid, tid and v are the values
\* the common form computes from the message's identity, options and library
\* and from the settings (v = 1), the same as for the message without its
\* properties and traits: no property, trait, product field, page field or
\* custom map entry named cid, tid or v replaces or removes them.
C26_CommonKeysKept ==
  LET cid == clientId(Stripped)
      tid == trackingId(Stripped, settings)
  IN  \A p \in Payloads :
        /\ {"cid", "tid", "v"} \subseteq DOMAIN p
        /\ p["cid"] = cid
        /\ p["cid"] \in {HashOfUserId, HashOfAnonId, Str("555.777")}
        /\ p["tid"] = tid
        /\ p["tid"] \in {ServersideId, MobileId}
        /\ p["v"] = Num(1)

C26_Witness ==
  /\ op = "clickedProduct"
  /\ Len(result.payloads) = 1
  /\ Get(event.properties, "cid") = Str("evil")
  /\ Get(event.properties, "tid") = Str("UA-0-0")
  /\ Get(event.properties, "v") = Num(9)
  /\ Get(event.traits, "cid") = Str("evil")
  /\ Get(result.payloads[1], "pr1id") = Str("p-9")
  /\ Get(result.payloads[1], "cid") = HashOfUserId
  /\ Get(result.payloads[1], "tid") = ServersideId
  /\ Get(result.payloads[1], "v") = Num(1)

\* C19: startedOrder and updatedOrder return, for every message and settings,
\* the payload viewedCheckoutStep returns for them (a pageview with
\* pa = checkout and ni = 1), and fail where it fails.
C19_OrderAliases ==
  (op \in {"startedOrder", "updatedOrder"}) =>
    /\ result = single(event, settings, mapViewedCheckoutStep(event, settings))
    /\ \A p \in Payloads :
         p["t"] = Str("pageview") /\ p["pa"] = Str("checkout") /\ p["ni"] = Num(1)

C19_Witness ==
  /\ op = "startedOrder"
  /\ Len(result.payloads) = 1
  /\ Len(OrderProducts) = 2
  /\ Get(result.payloads[1], "pr2id") = Str("p-1")
  /\ Get(result.payloads[1], "pa") = Str("checkout")
  /\ result.payloads = <<mapViewedCheckoutStep(event, settings)>>

\* C20: a payload has the key uid exactly when settings.sendUserId is enabled
\* and the message has a user id, and then uid is that user id; with
\* sendUserId disabled no payload has uid.
C20_UserIdField ==
  \A p \in Payloads :
    IF Truthy(settings.sendUserId) /\ Tag(event.userId) = "string"
    THEN "uid" \in DOMAIN p /\ p["uid"] = event.userId
    ELSE "uid" \notin DOMAIN p

C20_Witness ==
  /\ op = "completedOrder"
  /\ settings.sendUserId = Bool(FALSE)
  /\ event.userId = Str(UserIdText)
  /\ Len(result.payloads) = 3
  /\ \A i \in 1..3 : "uid" \notin DOMAIN result.payloads[i]

-----------------------------------------------------------------------------
(* Properties of the dispatcher, checked under DispatchSpec *)

\* call c is a completedOrder dispatch whose batch was started
IsBatch(c) ==
  /\ invoked[c] # <<>>
  /\ invoked[c][1].method = "completedOrder"
  /\ ~invoked[c][1].threw

\* N + 1 for the order of call c
BatchSize(c) == Len(invoked[c][1].message.properties["products"][2]) + 1

\* every POST of call c has its response
Finished(c) == \A i \in 1..Len(sends[c]) : sends[c][i] \in {"ok", "err"}

AllOk(c) == \A i \in 1..Len(sends[c]) : sends[c][i] = "ok"

\* nothing of call c is left to happen
Settled(c) == Finished(c) /\ deferred[c] = <<>>

\* C2: the caller of completedOrder is told success only if every one of the
\* N + 1 sends succeeded, and failure only if one failed; once the batch has
\* settled the caller has been told, and success exactly when all succeeded.
C2_AllOrNothing ==
  \A c \in Calls : IsBatch(c) =>
    /\ \A k \in 1..Len(calls[c]) :
         /\ calls[c][k] = <<"success">> => AllOk(c)
         /\ calls[c][k][1] = "error" => \E i \in 1..Len(sends[c]) : sends[c][i] = "err"
    /\ Settled(c) =>
         /\ calls[c] # <<>>
         /\ (calls[c][1] = <<"success">>) <=> AllOk(c)

C2_Witness ==
  \E c \in Calls :
    /\ IsBatch(c)
    /\ sends[c] = <<"ok", "err", "ok">>
    /\ calls[c] = << <<"error", 2>> >>
    /\ deferred[c] = <<>>

\* C3: whatever the order of the responses, fn is invoked at most once, with
\* success or with the error of the send that failed first, and exactly once
\* when the batch has settled.
C3_ExactlyOnce ==
  \A c \in Calls : IsBatch(c) =>
    /\ Len(calls[c]) + Len(deferred[c]) <= 1
    /\ \A k \in 1..Len(calls[c]) :
         calls[c][k][1] = "error" => calls[c][k] = <<"error", firstErr[c]>>
    /\ Settled(c) => Len(calls[c]) = 1

C3_Witness ==
  \E c \in Calls :
    /\ IsBatch(c)
    /\ sends[c] = <<"ok", "err", "err">>
    /\ firstErr[c] = 3
    /\ calls[c] = << <<"error", 3>> >>

\* C4: every one of the N + 1 payloads is POSTed, whatever the outcome of the
\* other sends of the batch.
C4_AllAttempted ==
  \A c \in Calls : IsBatch(c) =>
    /\ Len(sends[c]) = BatchSize(c)
    /\ Len(posted[c]) = BatchSize(c)
    /\ \A i \in 1..Len(sends[c]) : sends[c][i] # "idle"
    /\ posted[c][1]["t"] = Str("transaction")
    /\ \A i \in 2..Len(posted[c]) : posted[c][i]["t"] = Str("item")

C4_Witness ==
  \E c \in Calls :
    /\ IsBatch(c)
    /\ sends[c] = <<"err", "inflight", "ok">>
    /\ Len(posted[c]) = 3
    /\ calls[c] = << <<"error", 1>> >>

\* C5 as stated: fn is invoked only after every one of the N + 1 sends has
\* finished, on the success path and on the failure path alike.
C5_JoinedBeforeCallback ==
  \A c \in Calls : (IsBatch(c) /\ calls[c] # <<>>) => Finished(c)

\* C5 amended: a success is reported only after every send has finished; a
\* failure is reported once the failing send has finished, whether or not the
\* other sends have.
C5_JoinedOnSuccess ==
  \A c \in Calls : IsBatch(c) =>
    \A k \in 1..Len(calls[c]) :
      /\ calls[c][k] = <<"success">> => (Finished(c) /\ pending[c] = 0)
      /\ calls[c][k][1] = "error" => sends[c][calls[c][k][2]] = "err"

C5_Witness ==
  \E c \in Calls :
    /\ IsBatch(c)
    /\ calls[c] = << <<"error", 2>> >>
    /\ sends[c] = <<"inflight", "err", "inflight">>

\* the enhanced e-commerce operations of the integration
EnhancedEcommerceMethods ==
  {"viewedCheckoutStep", "refundedOrder", "viewedPromotion", "clickedPromotion",
   "clickedProduct", "addedProduct", "removedProduct", "startedOrder", "updatedOrder",
   "completedCheckoutStep"}

\* C7: an enhanced e-commerce operation is invoked on the dispatcher only
\* when settings.enhancedEcommerce is enabled.
C7_Gated ==
  \A c \in Calls :
    (invoked[c] # <<>> /\ invoked[c][1].method \in EnhancedEcommerceMethods)
      => settings.enhancedEcommerce = Bool(TRUE)

\* the dispatcher operations that send one payload
SinglePayloadMethods ==
  {"track", "page", "screen", "viewedCheckoutStep", "refundedOrder", "viewedPromotion",
   "clickedPromotion"}

\* C22: a call of a single-payload dispatcher operation on a message with an
\* identity POSTs exactly one body, the payload its mapper produces for the
\* message and the dispatcher's settings (so the body has the configured
\* tid), and the caller's callback is invoked at most once, exactly once when
\* the response has arrived, with that send's outcome.
C22_SinglePost ==
  \A c \in Calls :
    (/\ invoked[c] # <<>>
     /\ invoked[c][1].method \in SinglePayloadMethods
     /\ Truthy(invoked[c][1].message.userId)) =>
      /\ ~invoked[c][1].threw
      /\ posted[c] = mapperPayloads(invoked[c][1].method, invoked[c][1].message, settings)
      /\ Len(posted[c]) = 1
      /\ Get(posted[c][1], "tid") = settings.serversideTrackingId
      /\ sends[c] = <<"inflight">> => calls[c] = <<>>
      /\ sends[c] = <<"ok">> => calls[c] = << <<"success">> >>
      /\ sends[c] = <<"err">> => calls[c] = << <<"error", 1>> >>

-----------------------------------------------------------------------------
(* Properties of concurrent dispatch, checked under ConcurrentSpec *)

\* call c has been made and its mapper returned
Started(c) == invoked[c] # <<>> /\ ~invoked[c][1].threw

\* the payloads of call c's own message
OwnPayloads(c) == mapperPayloads(invoked[c][1].method, invoked[c][1].message, settings)

\* C21: with two dispatcher calls in flight and their responses interleaved in
\* any order, each call POSTs its own payloads and no others, and what its
\* caller is told follows from the outcomes of those sends alone: at most one
\* callback, success only when all of its own sends succeeded, an error only
\* for one of its own sends that failed, and exactly one callback once its own
\* sends have settled, whatever happened to the other call.
C21_Independent ==
  \A c \in Concurrent : Started(c) =>
    /\ posted[c] = OwnPayloads(c)
    /\ Len(sends[c]) = Len(OwnPayloads(c))
    /\ Len(calls[c]) + Len(deferred[c]) <= 1
    /\ \A k \in 1..Len(calls[c]) :
         /\ calls[c][k] = <<"success">> => AllOk(c)
         /\ calls[c][k][1] = "error" =>
              /\ calls[c][k][2] \in 1..Len(sends[c])
              /\ sends[c][calls[c][k][2]] = "err"
    /\ Settled(c) =>
         /\ Len(calls[c]) = 1
         /\ (calls[c][1] = <<"success">>) <=> AllOk(c)

C21_Witness ==
  /\ Started(1)
  /\ Started(2)
  /\ invoked[1][1].method = "completedOrder"
  /\ invoked[2][1].method = "completedOrder"
  /\ sends[1] = <<"err", "inflight">>
  /\ calls[1] = << <<"error", 1>> >>
  /\ sends[2] = <<"ok", "ok">>
  /\ calls[2] = << <<"success">> >>

====
